---------------------------- MODULE Spec2Model ----------------------------
(***************************************************************************)
(* Track-reconstruction quality metrics of Practice_1/code/metrics.py:     *)
(* HitsMatchingEfficiency.fit and ParameterMatchingEfficiency.fit.         *)
(*                                                                         *)
(* One scorer instance (`self`) of either class is modelled.  Floating     *)
(* point quotients are kept as exact fractions num/den (den > 0), so that  *)
(* comparisons are decided by cross multiplication; NaN and a missing      *)
(* attribute are values of their own.                                      *)
(***************************************************************************)
EXTENDS Integers, Sequences, FiniteSets, TLC

VARIABLES
    kind,     \* class of the instance: "hits" or "param"
    self,     \* the instance's attributes (configuration and result fields)
    event,    \* argument `event` of the current/last call of fit
    labels,   \* argument `labels` of the current/last call of fit
    outcome,  \* "pending", "constructed", "returned" or the exception raised
    locals,   \* local variables of the last call of fit when it returned
    calls     \* number of calls of fit made on the instance

vars == <<kind, self, event, labels, outcome, locals, calls>>

-----------------------------------------------------------------------------
(* Bounds of the model *)

MaxHits == 4        \* hits per event, HitsMatchingEfficiency
MaxHitsP == 2       \* hits per event, ParameterMatchingEfficiency
MaxSeqHits == 2     \* hits per event in repeated calls, HitsMatchingEfficiency
MaxSeqHitsP == 1    \* hits per event in repeated calls, ParameterMatchingEfficiency
MaxShapeHits == 2   \* hits per event and labels per array in misaligned calls
MaxCalls == 2       \* calls of fit on one instance in repeated calls

-----------------------------------------------------------------------------
(* Values *)

Noise == -1

Unset == [v |-> "unset"]
NaN == [v |-> "nan"]
Inf == [v |-> "inf"]
Num(n, d) == [v |-> "num", num |-> n, den |-> d]
Array(a) == [v |-> "array", a |-> a]

IsNum(r) == r.v = "num"
IsZero(r) == IsNum(r) /\ r.num = 0
NumEq(a, b) == IsNum(a) /\ IsNum(b) /\ a.num * b.den = b.num * a.den
NumGE(a, b) == a.num * b.den >= b.num * a.den
NumLE(a, b) == NumGE(b, a)
NumAdd(a, b) == Num(a.num * b.den + b.num * a.den, a.den * b.den)
NumSub(a, b) == Num(a.num * b.den - b.num * a.den, a.den * b.den)
NumAbs(a) == Num(IF a.num < 0 THEN -a.num ELSE a.num, a.den)

\* float division a / n; a numpy integer 0 as divisor gives nan or inf
TrueDiv(a, n) == IF n # 0 THEN Num(a, n) ELSE IF a = 0 THEN NaN ELSE Inf

-----------------------------------------------------------------------------
(* numpy *)

RECURSIVE SortSet(_)
SortSet(S) ==
    IF S = {} THEN <<>>
    ELSE LET m == CHOOSE x \in S : \A y \in S : x <= y
         IN <<m>> \o SortSet(S \ {m})

Range(a) == {a[i] : i \in DOMAIN a}

\* numpy.unique(a): the sorted distinct values
unique(a) == SortSet(Range(a))

\* numpy.unique(a, return_counts=True)[1]
counts_of(a) ==
    LET u == unique(a)
    IN [k \in 1..Len(u) |-> Cardinality({i \in DOMAIN a : a[i] = u[k]})]

\* a[mask] for a boolean array mask
BoolIndex(a, mask) ==
    LET idx == SortSet({i \in DOMAIN mask : mask[i]})
    IN [k \in 1..Len(idx) |-> a[idx[k]]]

\* a == value, elementwise
EqMask(a, value) == [i \in DOMAIN a |-> a[i] = value]
NeqMask(a, value) == [i \in DOMAIN a |-> a[i] # value]

amax(a) == CHOOSE m \in Range(a) : \A x \in Range(a) : x <= m

RECURSIVE NumSum(_)
NumSum(a) == IF Len(a) = 0 THEN Num(0, 1) ELSE NumAdd(Head(a), NumSum(Tail(a)))

\* a.mean(); NaN (with a warning) for an empty array
mean(a) ==
    IF Len(a) = 0 THEN NaN
    ELSE LET s == NumSum(a) IN Num(s.num, s.den * Len(a))

RECURSIVE IntSum(_)
IntSum(a) == IF Len(a) = 0 THEN 0 ELSE Head(a) + IntSum(Tail(a))

-----------------------------------------------------------------------------
(* HitsMatchingEfficiency *)

HitsInit(eff_threshold) ==
    [eff_threshold |-> eff_threshold,
     efficiencies_ |-> Unset,
     avg_efficiency_ |-> Unset,
     reconstruction_efficiency_ |-> Unset,
     ghost_rate_ |-> Unset,
     clone_rate_ |-> Unset]

TrackIDValues(ev) == [i \in DOMAIN ev |-> ev[i].TrackID]

\* the labels the loops visit: unique labels other than -1, ascending
GroupLabels(lb) == SelectSeq(unique(lb), LAMBDA l : l # Noise)

\* track = true_labels[labels == label]
GroupTrack(true_labels, lb, label) == BoolIndex(true_labels, EqMask(lb, label))

\* eff = 1. * counts.max() / len(track)
GroupEfficiency(track) == TrueDiv(amax(counts_of(track)), Len(track))

\* unique[counts == counts.max()][0]
DominantTrack_last(track) ==
    LET c == counts_of(track)
        d == BoolIndex(unique(track), EqMask(c, amax(c)))
    IN d[Len(d)]

DominantTrack_skipnoise(track) ==
    LET t == BoolIndex(track, NeqMask(track, Noise))
        s == IF Len(t) = 0 THEN track ELSE t
        c == counts_of(s)
    IN BoolIndex(unique(s), EqMask(c, amax(c)))[1]

DominantTrack(track) ==
    LET c == counts_of(track)
    IN BoolIndex(unique(track), EqMask(c, amax(c)))[1]

\* n_tracks = (numpy.unique(event.TrackID.values) != -1).sum()
n_tracks_of(ev) ==
    LET true_tracks_id == unique(TrackIDValues(ev))
    IN Cardinality({i \in DOMAIN true_tracks_id : true_tracks_id[i] # Noise})

\* tracks_id[efficiencies >= self.eff_threshold]
RecoTracksId(tracks_id, efficiencies, eff_threshold) ==
    BoolIndex(tracks_id,
              [i \in DOMAIN efficiencies |-> NumGE(efficiencies[i], eff_threshold)])

\* reco_tracks_id[reco_tracks_id != -1]
NonNoise(reco_tracks_id) == BoolIndex(reco_tracks_id, NeqMask(reco_tracks_id, Noise))

ReconstructionEfficiency_unguarded(unique_reco, n_tracks) ==
    TrueDiv(Len(unique_reco), n_tracks)

ReconstructionEfficiency(unique_reco, n_tracks) ==
    IF n_tracks > 0 THEN TrueDiv(Len(unique_reco), n_tracks) ELSE Num(0, 1)

GhostRate_dedup(tracks_id, reco_tracks_id, n_tracks) ==
    IF n_tracks > 0
    THEN TrueDiv(Len(reco_tracks_id) - Len(unique(NonNoise(reco_tracks_id))), n_tracks)
    ELSE Num(0, 1)

GhostRate_passing(tracks_id, reco_tracks_id, n_tracks) ==
    IF n_tracks > 0
    THEN TrueDiv(Len(reco_tracks_id) - Len(NonNoise(reco_tracks_id)), n_tracks)
    ELSE Num(0, 1)

GhostRate(tracks_id, reco_tracks_id, n_tracks) ==
    IF n_tracks > 0
    THEN TrueDiv(Len(tracks_id) - Len(NonNoise(reco_tracks_id)), n_tracks)
    ELSE Num(0, 1)

CloneRate_sum(cnts, n_tracks) ==
    IF n_tracks > 0 THEN TrueDiv(IntSum(cnts), n_tracks) ELSE Num(0, 1)

CloneRate(cnts, n_tracks) ==
    IF n_tracks > 0
    THEN TrueDiv(IntSum([k \in DOMAIN cnts |-> cnts[k] - 1]), n_tracks)
    ELSE Num(0, 1)

\* the local variables of HitsMatchingEfficiency.fit at its end
HitsLocals(slf, ev, lb) ==
    LET true_labels == TrackIDValues(ev)
        groups == GroupLabels(lb)
        track(g) == GroupTrack(true_labels, lb, groups[g])
        efficiencies == [g \in 1..Len(groups) |-> GroupEfficiency(track(g))]
        tracks_id == [g \in 1..Len(groups) |-> DominantTrack(track(g))]
        n_tracks == n_tracks_of(ev)
        reco_tracks_id == RecoTracksId(tracks_id, efficiencies, slf.eff_threshold)
    IN [groups |-> groups,
        efficiencies |-> efficiencies,
        tracks_id |-> tracks_id,
        n_tracks |-> n_tracks,
        reco_tracks_id |-> reco_tracks_id,
        unique |-> unique(NonNoise(reco_tracks_id)),
        counts |-> counts_of(NonNoise(reco_tracks_id))]

\* the assignments to self.* of HitsMatchingEfficiency.fit
HitsStore_stale(slf, l) ==
    [slf EXCEPT
        !.efficiencies_ = Array(l.efficiencies),
        !.avg_efficiency_ = mean(l.efficiencies),
        !.reconstruction_efficiency_ = ReconstructionEfficiency(l.unique, l.n_tracks),
        !.ghost_rate_ = GhostRate(l.tracks_id, l.reco_tracks_id, l.n_tracks),
        !.clone_rate_ = IF l.n_tracks > 0 THEN CloneRate(l.counts, l.n_tracks) ELSE @]

HitsStore(slf, l) ==
    [slf EXCEPT
        !.efficiencies_ = Array(l.efficiencies),
        !.avg_efficiency_ = mean(l.efficiencies),
        !.reconstruction_efficiency_ = ReconstructionEfficiency(l.unique, l.n_tracks),
        !.ghost_rate_ = GhostRate(l.tracks_id, l.reco_tracks_id, l.n_tracks),
        !.clone_rate_ = CloneRate(l.counts, l.n_tracks)]

HitsFit(slf, ev, lb) == HitsStore(slf, HitsLocals(slf, ev, lb))

-----------------------------------------------------------------------------
(* ParameterMatchingEfficiency *)

ParamInit(delta_k, delta_b) ==
    [delta_k |-> delta_k,
     delta_b |-> delta_b,
     reconstruction_efficiency_ |-> Unset,
     ghost_rate_ |-> Unset,
     clone_rate_ |-> Unset]

\* LinearRegression().fit(X, y): ordinary least squares of y on X with an
\* intercept; the minimum-norm solution (slope 0) when X has no variance.
LinearRegression(X, y) ==
    LET n == Len(X)
        Sx == IntSum(X)
        Sy == IntSum(y)
        Sxx == n * IntSum([i \in DOMAIN X |-> X[i] * X[i]]) - Sx * Sx
        Sxy == n * IntSum([i \in DOMAIN X |-> X[i] * y[i]]) - Sx * Sy
    IN IF Sxx = 0
       THEN [coef |-> Num(0, 1), intercept |-> Num(Sy, n)]
       ELSE [coef |-> Num(Sxy, Sxx), intercept |-> Num(Sy * Sxx - Sxy * Sx, n * Sxx)]

\* the fit over the rows of event selected by mask
FitRows(ev, mask) ==
    LET rows == BoolIndex(ev, mask)
    IN LinearRegression([i \in DOMAIN rows |-> rows[i].X], [i \in DOMAIN rows |-> rows[i].y])

TrueParams(ev) ==
    LET true_labels == TrackIDValues(ev)
        ids == SelectSeq(unique(true_labels), LAMBDA l : l # Noise)
    IN [k \in 1..Len(ids) |-> FitRows(ev, EqMask(true_labels, ids[k]))]

Params(ev, lb) ==
    LET groups == GroupLabels(lb)
    IN [k \in 1..Len(groups) |-> FitRows(ev, EqMask(lb, groups[k]))]

Matches(one_true_param, one_param, delta_k, delta_b) ==
    /\ NumLE(NumAbs(NumSub(one_true_param.coef, one_param.coef)), delta_k)
    /\ NumLE(NumAbs(NumSub(one_true_param.intercept, one_param.intercept)), delta_b)

\* if true_used[true_id] == 0 and used[id] == 0
Unused_any(true_used, used, true_id, id) == TRUE

Unused_track(true_used, used, true_id, id) == true_used[true_id] = 0

Unused(true_used, used, true_id, id) == true_used[true_id] = 0 /\ used[id] = 0

\* the loop over true_params for one group; st holds the loop's variables
RECURSIVE InnerLoop(_, _, _, _, _, _)
InnerLoop(st, id, true_id, true_params, params, slf) ==
    IF true_id > Len(true_params) THEN st
    ELSE IF Matches(true_params[true_id], params[id], slf.delta_k, slf.delta_b)
    THEN LET st1 == [st EXCEPT !.n_matchings = @ + 1]
             st2 == IF Unused(st.true_used, st.used, true_id, id)
                    THEN [st1 EXCEPT !.n_reconstructions = @ + 1,
                                     !.true_used[true_id] = 1,
                                     !.used[id] = 1,
                                     !.assigned = @ \cup {<<id, true_id>>}]
                    ELSE st1
         IN InnerLoop(st2, id, true_id + 1, true_params, params, slf)
    ELSE InnerLoop(st, id, true_id + 1, true_params, params, slf)

\* the loop over params
RECURSIVE OuterLoop(_, _, _, _, _)
OuterLoop(st, id, true_params, params, slf) ==
    IF id > Len(params) THEN st
    ELSE LET st1 == InnerLoop([st EXCEPT !.n_matchings = 0], id, 1, true_params, params, slf)
             st2 == IF st1.n_matchings = 0 THEN [st1 EXCEPT !.n_ghosts = @ + 1] ELSE st1
         IN OuterLoop(st2, id + 1, true_params, params, slf)

\* the local variables of ParameterMatchingEfficiency.fit at its end;
\* assigned records the pairs (group index, true track index) of line 158
ParamLocals(slf, ev, lb) ==
    LET true_params == TrueParams(ev)
        params == Params(ev, lb)
        st == OuterLoop([n_reconstructions |-> 0,
                         n_ghosts |-> 0,
                         n_matchings |-> 0,
                         true_used |-> [k \in 1..Len(true_params) |-> 0],
                         used |-> [k \in 1..Len(params) |-> 0],
                         assigned |-> {}],
                        1, true_params, params, slf)
        n_tracks == n_tracks_of(ev)
    IN [n_tracks |-> n_tracks,
        true_params |-> true_params,
        params |-> params,
        n_reconstructions |-> st.n_reconstructions,
        n_ghosts |-> st.n_ghosts,
        true_used |-> st.true_used,
        used |-> st.used,
        assigned |-> st.assigned]

\* the assignments to self.* of ParameterMatchingEfficiency.fit
ParamStore(slf, l) ==
    IF l.n_tracks > 0
    THEN [slf EXCEPT
            !.reconstruction_efficiency_ = TrueDiv(l.n_reconstructions, l.n_tracks),
            !.ghost_rate_ = TrueDiv(l.n_ghosts, l.n_tracks),
            !.clone_rate_ =
                TrueDiv(Len(l.params) - l.n_reconstructions - l.n_ghosts, l.n_tracks)]
    ELSE [slf EXCEPT
            !.reconstruction_efficiency_ = Num(0, 1),
            !.ghost_rate_ = Num(0, 1),
            !.clone_rate_ = Num(0, 1)]

ParamFit(slf, ev, lb) == ParamStore(slf, ParamLocals(slf, ev, lb))

-----------------------------------------------------------------------------
(* Calls of fit *)

\* labels of another length than event: every non -1 label indexes with a
\* boolean mask of the wrong length.  numpy raises IndexError for it; numpy
\* before 1.13 only warns when no True entry of the mask lies beyond the array.
LegacyMaskFits(ev, lb) == \A i \in DOMAIN lb : lb[i] # Noise => i <= Len(ev)

HitsOutcomes_checked(ev, lb) ==
    IF Len(lb) # Len(ev) THEN {"InputShapeError"} ELSE {"returned"}

HitsOutcomes(ev, lb) ==
    IF Len(lb) = Len(ev) \/ Len(GroupLabels(lb)) = 0 THEN {"returned"}
    ELSE IF LegacyMaskFits(ev, lb) THEN {"IndexError", "returned"}
    ELSE {"IndexError"}

\* pandas raises ValueError (item wrong length) for event[labels == label]
ParamOutcomes(ev, lb) ==
    IF Len(lb) = Len(ev) \/ Len(GroupLabels(lb)) = 0 THEN {"returned"}
    ELSE {"ValueError"}

NoLocals == [none |-> TRUE]

HitsCall(ev, lb) ==
    /\ kind = "hits"
    /\ event' = ev
    /\ labels' = lb
    /\ \E o \in HitsOutcomes(ev, lb) :
         /\ outcome' = o
         /\ IF o = "returned"
            THEN LET l == HitsLocals(self, ev, lb)
                 IN self' = HitsStore(self, l) /\ locals' = l
            ELSE self' = self /\ locals' = NoLocals
    /\ calls' = calls + 1
    /\ UNCHANGED kind

ParamCall(ev, lb) ==
    /\ kind = "param"
    /\ event' = ev
    /\ labels' = lb
    /\ \E o \in ParamOutcomes(ev, lb) :
         /\ outcome' = o
         /\ IF o = "returned"
            THEN LET l == ParamLocals(self, ev, lb)
                 IN self' = ParamStore(self, l) /\ locals' = l
            ELSE self' = self /\ locals' = NoLocals
    /\ calls' = calls + 1
    /\ UNCHANGED kind

-----------------------------------------------------------------------------
(* Inputs *)

TrackIdVals == {-1, 0, 1}
LabelVals == {-1, 5, 6}
XVals == {0, 1}
yVals == {0, 1}

Half == Num(1, 2)
Thresholds == {Half, Num(3, 4)}
Deltas == {<<Num(0, 1), Num(0, 1)>>, <<Num(1, 1), Num(1, 1)>>}

\* HitsMatchingEfficiency reads only the column TrackID
HitsRows == {[TrackID |-> t, X |-> 0, y |-> 0] : t \in TrackIdVals}
ParamRows == {[TrackID |-> t, X |-> x, y |-> yy] : t \in TrackIdVals, x \in XVals, yy \in yVals}

\* rows of the events of repeated calls
SeqTrackIdVals == {-1, 0}
SeqHitsRows == {[TrackID |-> t, X |-> 0, y |-> 0] : t \in SeqTrackIdVals}
SeqParamRows == {[TrackID |-> t, X |-> 0, y |-> yy] : t \in SeqTrackIdVals, yy \in yVals}

\* the arguments are an event of at most n rows and as many labels
AlignedArgs(Rows, n) ==
    \E k \in 0..n : event \in [1..k -> Rows] /\ labels \in [1..k -> LabelVals]

\* the arguments are an event and labels of different lengths, at most n
MisalignedArgs(Rows, n) ==
    \E k \in 0..n, j \in 0..n :
        k # j /\ event \in [1..k -> Rows] /\ labels \in [1..j -> LabelVals]

ScenarioEvent ==
    [i \in 1..6 |-> [TrackID |-> <<0, 0, 0, 1, 1, -1>>[i], X |-> 0, y |-> 0]]
ScenarioLabels == <<5, 5, 5, 5, 6, 6>>
CloneScenarioLabels == <<5, 5, 5, 6, 6, 6>>
ScenarioArgs ==
    event = ScenarioEvent /\ labels \in {ScenarioLabels, CloneScenarioLabels}

Construct ==
    \/ kind = "hits" /\ \E t \in Thresholds : self = HitsInit(t)
    \/ kind = "param" /\ \E d \in Deltas : self = ParamInit(d[1], d[2])

-----------------------------------------------------------------------------
(* One call of fit on a new instance, with aligned arguments *)

Init ==
    /\ Construct
    /\ IF kind = "hits"
       THEN AlignedArgs(HitsRows, MaxHits) \/ ScenarioArgs
       ELSE AlignedArgs(ParamRows, MaxHitsP)
    /\ outcome = "pending"
    /\ locals = NoLocals
    /\ calls = 0

HitsFitCall == outcome = "pending" /\ HitsCall(event, labels)
ParamFitCall == outcome = "pending" /\ ParamCall(event, labels)

Next == HitsFitCall \/ ParamFitCall

Spec == Init /\ [][Next]_vars

-----------------------------------------------------------------------------
(* Any number of calls of fit on one instance, with aligned arguments *)

InitSeq ==
    /\ Construct
    /\ event = <<>>
    /\ labels = <<>>
    /\ outcome = "constructed"
    /\ locals = NoLocals
    /\ calls = 0

HitsFitAgain ==
    /\ calls < MaxCalls
    /\ \E k \in 0..MaxSeqHits :
         \E ev \in [1..k -> SeqHitsRows], lb \in [1..k -> LabelVals] : HitsCall(ev, lb)

ParamFitAgain ==
    /\ calls < MaxCalls
    /\ \E k \in 0..MaxSeqHitsP :
         \E ev \in [1..k -> SeqParamRows], lb \in [1..k -> LabelVals] : ParamCall(ev, lb)

NextSeq == HitsFitAgain \/ ParamFitAgain

SpecSeq == InitSeq /\ [][NextSeq]_vars

-----------------------------------------------------------------------------
(* One call of fit with labels of another length than event *)

InitShape ==
    /\ Construct
    /\ MisalignedArgs(IF kind = "hits" THEN HitsRows ELSE ParamRows, MaxShapeHits)
    /\ outcome = "pending"
    /\ locals = NoLocals
    /\ calls = 0

SpecShape == InitShape /\ [][Next]_vars

-----------------------------------------------------------------------------
(* Properties *)

Returned == outcome = "returned"
IsHits == kind = "hits"
IsParam == kind = "param"

\* distinct TrackIDs of the event and distinct labels, -1 apart
TrueTrackIds == {event[i].TrackID : i \in DOMAIN event} \ {Noise}
GroupIds == {labels[i] : i \in DOMAIN labels} \ {Noise}
NTracks == Cardinality(TrueTrackIds)

reco == self.reconstruction_efficiency_
ghost == self.ghost_rate_
clone == self.clone_rate_

FieldsUnset ==
    /\ reco.v = "unset" /\ ghost.v = "unset" /\ clone.v = "unset"
    /\ IsHits => self.efficiencies_.v = "unset" /\ self.avg_efficiency_.v = "unset"

FieldsSet ==
    /\ reco.v # "unset" /\ ghost.v # "unset" /\ clone.v # "unset"
    /\ IsHits => self.efficiencies_.v # "unset" /\ self.avg_efficiency_.v # "unset"

\* hits matching: R, the groups that pass the threshold; Q, those of R whose
\* dominant TrackID is not -1; D, the distinct dominant TrackIDs of Q
Passing ==
    {g \in DOMAIN locals.efficiencies : NumGE(locals.efficiencies[g], self.eff_threshold)}
Qualifying == {g \in Passing : locals.tracks_id[g] # Noise}
DominantIds == {locals.tracks_id[g] : g \in Qualifying}

\* C1: when the event has no TrackID other than -1, both scorers report
\* reconstruction efficiency, ghost rate and clone rate as exactly 0 (a
\* division by n_tracks = 0 would give nan or inf instead).
C1_ZeroRates ==
    (Returned /\ TrueTrackIds = {}) => IsZero(reco) /\ IsZero(ghost) /\ IsZero(clone)

C1_Witness ==
    /\ Returned /\ IsParam
    /\ TrueTrackIds = {}
    /\ Cardinality(GroupIds) >= 2
    /\ IsZero(reco) /\ IsZero(ghost) /\ IsZero(clone)

\* C2 as stated: ghost rate = (|R| - |D|) / n_tracks.
C2_Original ==
    (Returned /\ IsHits /\ NTracks > 0) =>
        NumEq(ghost, Num(Cardinality(Passing) - Cardinality(DominantIds), NTracks))

\* C2 amended: ghost rate = (number of all groups - |Q|) / n_tracks, Q being
\* the groups that pass the threshold with a dominant TrackID other than -1,
\* each counted once however many share a TrackID.
C2_GhostRate ==
    (Returned /\ IsHits /\ NTracks > 0) =>
        NumEq(ghost, Num(Cardinality(GroupIds) - Cardinality(Qualifying), NTracks))

C2_Witness ==
    /\ Returned /\ IsHits /\ NTracks > 0
    /\ Cardinality(Qualifying) = 2
    /\ Cardinality(DominantIds) = 1
    /\ IsZero(ghost)

ScenarioDone(lb) ==
    /\ Returned /\ IsHits
    /\ self.eff_threshold = Half
    /\ event = ScenarioEvent
    /\ labels = lb

\* C3 as stated: group 6 is dominated by track 1 and the rates are 1, 0, 0.
C3_Original ==
    ScenarioDone(ScenarioLabels) =>
        /\ NumEq(self.efficiencies_.a[1], Num(3, 4)) /\ locals.tracks_id[1] = 0
        /\ NumEq(self.efficiencies_.a[2], Half) /\ locals.tracks_id[2] = 1
        /\ locals.n_tracks = 2
        /\ NumEq(reco, Num(1, 1)) /\ IsZero(ghost) /\ IsZero(clone)

\* C3 amended: TrackIDs [0,0,0,1,1,-1], labels [5,5,5,5,6,6], threshold 0.5:
\* group 5 has efficiency 0.75 and dominant track 0; group 6 has efficiency
\* 0.5 and dominant TrackID -1 (the tie of -1 and 1 goes to the smaller);
\* n_tracks = 2, reconstruction efficiency 0.5, ghost rate 0.5, clone rate 0.
C3_Scenario ==
    ScenarioDone(ScenarioLabels) =>
        /\ NumEq(self.efficiencies_.a[1], Num(3, 4)) /\ locals.tracks_id[1] = 0
        /\ NumEq(self.efficiencies_.a[2], Half) /\ locals.tracks_id[2] = Noise
        /\ locals.n_tracks = 2
        /\ NumEq(reco, Half) /\ NumEq(ghost, Half) /\ IsZero(clone)

C3_Witness == ScenarioDone(ScenarioLabels) /\ Len(locals.groups) = 2

\* C4: after fit returns, 0 <= reconstruction efficiency <= 1 (no more true
\* tracks are reconstructed than there are), ghost rate >= 0, clone rate >= 0,
\* and in parameter matching len(params) - n_reconstructions - n_ghosts >= 0.
C4_Bounds ==
    Returned =>
        /\ IsNum(reco) /\ IsNum(ghost) /\ IsNum(clone)
        /\ 0 <= reco.num /\ reco.num <= reco.den
        /\ 0 <= ghost.num
        /\ 0 <= clone.num
        /\ IsHits => Len(locals.unique) <= NTracks
        /\ IsParam =>
            /\ locals.n_reconstructions <= NTracks
            /\ Len(locals.params) - locals.n_reconstructions - locals.n_ghosts >= 0

C4_Witness ==
    /\ Returned /\ IsParam /\ NTracks > 0
    /\ reco.num = reco.den
    /\ clone.num > 0

\* the true tracks within tolerance of group g that no earlier group took
FreeMatches(g) ==
    {t \in DOMAIN locals.true_params :
        /\ Matches(locals.true_params[t], locals.params[g], self.delta_k, self.delta_b)
        /\ ~ \E p \in locals.assigned : p[2] = t /\ p[1] < g}

\* C5: the greedy assignment of parameter matching is one-to-one: a group
\* reconstructs at most one true track and a true track is taken by at most
\* one group, n_reconstructions <= min(groups, true tracks), and a group
\* takes the first, in ascending TrackID order, of the unused true tracks
\* within tolerance and no other.
C5_Greedy ==
    (Returned /\ IsParam) =>
        /\ \A p, q \in locals.assigned : (p[1] = q[1] \/ p[2] = q[2]) => p = q
        /\ locals.n_reconstructions = Cardinality(locals.assigned)
        /\ locals.n_reconstructions <= Len(locals.params)
        /\ locals.n_reconstructions <= Len(locals.true_params)
        /\ \A g \in DOMAIN locals.params :
             LET free == FreeMatches(g)
                 taken == {p[2] : p \in {q \in locals.assigned : q[1] = g}}
             IN IF free = {} THEN taken = {}
                ELSE taken = {CHOOSE t \in free : \A u \in free : t <= u}

C5_Witness ==
    /\ Returned /\ IsParam
    /\ \E g \in DOMAIN locals.params :
         /\ Cardinality(FreeMatches(g)) >= 2
         /\ <<g, 1>> \in locals.assigned
         /\ <<g, 2>> \notin locals.assigned

\* C6 as stated: labels of another length than event raise InputShapeError
\* and no result field is set.
C6_Original ==
    (calls > 0 /\ Len(labels) # Len(event)) =>
        outcome = "InputShapeError" /\ FieldsUnset

\* C6 amended: labels of another length than event are not checked and no
\* InputShapeError is raised: with no label other than -1 fit returns with
\* every result field set; otherwise either the mask indexing raises the
\* library's error (IndexError, ValueError) before any result field is set,
\* or fit returns with every result field set.
C6_NoShapeCheck ==
    (calls > 0 /\ Len(labels) # Len(event)) =>
        /\ outcome \in {"returned", "IndexError", "ValueError"}
        /\ GroupIds = {} => Returned
        /\ Returned => FieldsSet
        /\ ~ Returned => FieldsUnset

C6_Witness ==
    /\ calls > 0 /\ Len(labels) # Len(event)
    /\ Returned /\ FieldsSet
    /\ GroupIds = {} /\ NTracks > 0

\* what a newly constructed scorer of the same configuration computes for
\* the arguments of the last call
FreshFit ==
    IF IsHits
    THEN HitsFit(HitsInit(self.eff_threshold), event, labels)
    ELSE ParamFit(ParamInit(self.delta_k, self.delta_b), event, labels)

ConfigOf(slf) == IF IsHits THEN <<slf.eff_threshold>> ELSE <<slf.delta_k, slf.delta_b>>

\* C7: after any sequence of calls of fit on one instance every result field
\* is set and equals what a new scorer of the same configuration computes for
\* the last call's arguments alone, and fit never changes the configuration.
C7_HistoryIndependent ==
    /\ [](Returned => FieldsSet /\ self = FreshFit)
    /\ [][ConfigOf(self') = ConfigOf(self)]_vars

C7_Witness ==
    /\ Returned /\ IsHits
    /\ calls >= 2
    /\ TrueTrackIds = {} /\ GroupIds # {}
    /\ IsZero(clone)

\* C8 as stated: the clone scenario has clone rate 0.5.
C8_Original == ScenarioDone(CloneScenarioLabels) => NumEq(clone, Half)

\* C8 amended: TrackIDs [0,0,0,1,1,-1], labels [5,5,5,6,6,6], threshold 0.5:
\* groups 5 and 6 are dominated by the distinct tracks 0 and 1, no group is
\* a clone and the clone rate is 0 (n_tracks = 2).
C8_CloneScenario ==
    ScenarioDone(CloneScenarioLabels) =>
        /\ locals.tracks_id = <<0, 1>>
        /\ locals.n_tracks = 2
        /\ IsZero(clone)

C8_Witness == ScenarioDone(CloneScenarioLabels) /\ NumEq(reco, Num(1, 1))

\* hits of group g (index into the ascending group labels), and those of
\* them with TrackID t
GroupHits(g) == {i \in DOMAIN labels : labels[i] = locals.groups[g]}
GroupCount(g, t) == Cardinality({i \in GroupHits(g) : event[i].TrackID = t})

\* C9: the dominant TrackID of a group is the smallest TrackID among those
\* with the maximal hit count in the group, -1 taking part like any other;
\* the group's efficiency is that count over the group's size; and a group
\* dominated by -1 adds nothing to reconstruction efficiency or clone rate.
C9_Dominant ==
    (Returned /\ IsHits) =>
        /\ Range(locals.groups) = GroupIds
        /\ \A g \in DOMAIN locals.groups :
             LET d == locals.tracks_id[g]
             IN /\ GroupCount(g, d) >= 1
                /\ \A t \in TrueTrackIds \cup {Noise} :
                     /\ GroupCount(g, t) <= GroupCount(g, d)
                     /\ GroupCount(g, t) = GroupCount(g, d) => d <= t
                /\ NumEq(self.efficiencies_.a[g],
                         Num(GroupCount(g, d), Cardinality(GroupHits(g))))
        /\ NTracks > 0 =>
             /\ NumEq(reco, Num(Cardinality(DominantIds), NTracks))
             /\ NumEq(clone,
                      Num(Cardinality(Qualifying) - Cardinality(DominantIds), NTracks))

C9_Witness ==
    /\ Returned /\ IsHits /\ NTracks > 0
    /\ \E g \in Passing :
         /\ locals.tracks_id[g] = Noise
         /\ \E t \in TrueTrackIds : GroupCount(g, t) = GroupCount(g, Noise)
    /\ IsZero(reco)

\* C10: with n_tracks > 0, (reconstruction efficiency + ghost rate + clone
\* rate) * n_tracks is the number of distinct labels other than -1.
C10_Conservation ==
    (Returned /\ IsHits /\ NTracks > 0) =>
        /\ IsNum(reco) /\ IsNum(ghost) /\ IsNum(clone)
        /\ NumEq(NumAdd(NumAdd(reco, ghost), clone), Num(Cardinality(GroupIds), NTracks))

C10_Witness ==
    /\ Returned /\ IsHits /\ NTracks > 0
    /\ Cardinality(Passing) < Cardinality(GroupIds)
    /\ reco.num > 0 /\ ghost.num > 0

=============================================================================
